---- MODULE Spec2Model ----
(***************************************************************************)
(* The in-memory assembler of amazon-s3-tar-tool (src/mem_concat.go):      *)
(* buildInMemoryConcat, tarGroup, splitSliceBySizeLimit and the requests   *)
(* they send to the object store.                                          *)
(*                                                                         *)
(* Byte strings are kept run-length encoded: a stream is a sequence of     *)
(* runs [k, m, n], n > 0 bytes of kind k ("hdr": header bytes of member m, *)
(* "data": the first n payload bytes of member m, "zero": zero bytes,      *)
(* m = 0), with no two adjacent zero runs.  Two streams are the same bytes *)
(* exactly when they are the same sequence of runs.                        *)
(***************************************************************************)
EXTENDS Integers, Sequences, FiniteSets, TLC

(***************************************************************************)
(* Bounds of the model.                                                    *)
(***************************************************************************)
\* longest object list handed to buildInMemoryConcat
MaxObjs == 4

(***************************************************************************)
(* Program constants.  They are declared in files of the package that are  *)
(* not part of src/ (mem_concat.go only uses them).  blockSize and         *)
(* fileSizeMin carry their real values in bytes.  partSizeMax (5 GiB),     *)
(* maxPartNumLimit (10 000) and threads (default 100) are scaled down,     *)
(* keeping fileSizeMin < partSizeMax and threads < maxPartNumLimit:        *)
(* 5 GiB is beyond the integers TLC computes with, and a list of more than *)
(* 10 000 groups is beyond an exhaustive search.                           *)
(***************************************************************************)
blockSize == 512
fileSizeMin == 5242880
partSizeMax == 20971520
maxPartNumLimit == 3
threads == 2

(***************************************************************************)
(* Byte streams.                                                           *)
(***************************************************************************)
Run(k, m, n) == [k |-> k, m |-> m, n |-> n]

\* n bytes of one kind; the empty stream when n = 0
Bytes(k, m, n) == IF n > 0 THEN <<Run(k, m, n)>> ELSE <<>>

Zeros(n) == Bytes("zero", 0, n)

\* bytes.Buffer.Write: b appended to a
Cat(a, b) ==
    IF a = <<>> THEN b
    ELSE IF b = <<>> THEN a
    ELSE IF a[Len(a)].k = "zero" /\ b[1].k = "zero"
         THEN SubSeq(a, 1, Len(a) - 1)
              \o <<Run("zero", 0, a[Len(a)].n + b[1].n)>>
              \o SubSeq(b, 2, Len(b))
         ELSE a \o b

RECURSIVE Length(_)
\* len(data)
Length(s) == IF s = <<>> THEN 0 ELSE s[1].n + Length(Tail(s))

RECURSIVE Take(_, _)
\* data[0:n], for 0 <= n <= len(data)
Take(s, n) ==
    IF n <= 0 \/ s = <<>> THEN <<>>
    ELSE IF s[1].n <= n THEN <<s[1]>> \o Take(Tail(s), n - s[1].n)
    ELSE <<Run(s[1].k, s[1].m, n)>>

\* the zero bytes archive/tar writes after a payload of n bytes
Padding(n) == (blockSize - (n % blockSize)) % blockSize

(***************************************************************************)
(* Objects.  An S3Obj is [Size, Data, Body, Hdr]: Size is the declared     *)
(* size (o.Size), Data the length of the inline bytes (len(o.Data), 0      *)
(* when there are none), Body the length of the body GetObject returns for *)
(* it, Hdr the length of the header archive/tar writes for it (one block,  *)
(* or three when the header needs a PAX extended record).                  *)
(***************************************************************************)
S3Obj(size, data, body, hdr) ==
    [Size |-> size, Data |-> data, Body |-> body, Hdr |-> hdr]

ObjectKinds ==
    { S3Obj(700, 700, 700, blockSize),
      S3Obj(4194304, 0, 4194304, blockSize),
      S3Obj(fileSizeMin + 1, 0, fileSizeMin + 1, 3 * blockSize),
      S3Obj(partSizeMax, 0, partSizeMax, blockSize),
      S3Obj(partSizeMax + 1, 0, partSizeMax + 1, blockSize),
      S3Obj(700, 0, 699, blockSize),
      S3Obj(1024, 1025, 0, blockSize) }

ObjectLists == UNION { [1..n -> ObjectKinds] : n \in 0..MaxObjs }

\* estimatedSize, as the caller computed it
EstimatedSizes == { fileSizeMin - 1, fileSizeMin }

\* opts.UserMaxPartSize; 0 when the user gave none
UserMaxPartSizes == { 0, partSizeMax }

Max(a, b) == IF a >= b THEN a ELSE b
Min(a, b) == IF a <= b THEN a ELSE b

\* the target part size: the user's, kept within [fileSizeMin, partSizeMax]
findMinimumPartSize(estimated, userMax) ==
    Min(Max(userMax, fileSizeMin), partSizeMax)

RECURSIVE findLargestFrom(_, _, _)
findLargestFrom(list, i, largestObject) ==
    IF i > Len(list) THEN largestObject
    ELSE findLargestFrom(list, i + 1,
             IF list[i].Size > largestObject THEN list[i].Size
             ELSE largestObject)

findLargestObject(list) == findLargestFrom(list, 1, 0)

(***************************************************************************)
(* splitSliceBySizeLimit.  A group is a sequence of indices into the       *)
(* object list (the code's groups hold pointers to its elements).          *)
(***************************************************************************)
\* the test without its second conjunct
closesGroupAboveLimit(currentSize, groupSizeLimit) ==
    currentSize > groupSizeLimit

\* the test with >= for >
closesGroupAtLimit(currentSize, groupSizeLimit) ==
    currentSize >= groupSizeLimit /\ currentSize >= fileSizeMin

\* the test that closes the current group, after a member was added to it
closesGroup(currentSize, groupSizeLimit) ==
    currentSize > groupSizeLimit /\ currentSize > fileSizeMin

RECURSIVE splitLoopDroppingRest(_, _, _, _, _, _)
\* the loop without the append of lines 297-299
splitLoopDroppingRest(groupSizeLimit, list, i, gs, currentGroup, currentSize) ==
    IF i > Len(list)
    THEN gs
    ELSE LET g == Append(currentGroup, i)
             sz == currentSize + list[i].Size
         IN  IF closesGroup(sz, groupSizeLimit)
             THEN splitLoopDroppingRest(groupSizeLimit, list, i + 1,
                                        Append(gs, g), <<>>, 0)
             ELSE splitLoopDroppingRest(groupSizeLimit, list, i + 1, gs, g, sz)

RECURSIVE splitLoop(_, _, _, _, _, _)
splitLoop(groupSizeLimit, list, i, gs, currentGroup, currentSize) ==
    IF i > Len(list)
    THEN IF Len(currentGroup) > 0 THEN Append(gs, currentGroup) ELSE gs
    ELSE LET g == Append(currentGroup, i)
             sz == currentSize + list[i].Size
         IN  IF closesGroup(sz, groupSizeLimit)
             THEN splitLoop(groupSizeLimit, list, i + 1, Append(gs, g), <<>>, 0)
             ELSE splitLoop(groupSizeLimit, list, i + 1, gs, g, sz)

\* the loop started at the second element
splitSliceSkippingFirst(groupSizeLimit, list) ==
    splitLoop(groupSizeLimit, list, 2, <<>>, <<>>, 0)

splitSliceBySizeLimit(groupSizeLimit, list) ==
    splitLoop(groupSizeLimit, list, 1, <<>>, <<>>, 0)

RECURSIVE GroupSize(_, _)
\* cumulative declared size of the members of a group
GroupSize(list, g) ==
    IF g = <<>> THEN 0 ELSE list[g[1]].Size + GroupSize(list, Tail(g))

(***************************************************************************)
(* State of one call of buildInMemoryConcat.                               *)
(***************************************************************************)
VARIABLES
    objectList,       \* the objectList argument
    estimatedSize,    \* the estimatedSize argument
    userMaxPartSize,  \* opts.UserMaxPartSize
    sedErr,           \* TRUE when applySedExpression fails on opts.SedExpression
    sizeLimit,        \* sizeLimit, line 36
    pc,               \* where the coordinator is
    groups,           \* groups, line 47
    mpu,              \* mpu.UploadId, "" before CreateMultipartUpload returned
    tasks,            \* the tarGroup calls: one per group, or the single one of line 29
    next,             \* the group the dispatch loop of line 79 is at
    gerr,             \* the first error the errgroup recorded
    parts,            \* parts, line 72
    partsSizeList,    \* partsSizeList, line 73
    calls,            \* requests sent to the object store, counted by operation
    sent,             \* the requests sent, each with the bucket and key it names
    gets,             \* GetObject requests, counted by member
    uploadReqs,       \* UploadPart requests, counted by part number
    stored,           \* per part number, the bodies UploadPart stored for the upload
    completeArg,      \* the Parts lists passed to CompleteMultipartUpload
    dest,             \* the objects written at the destination key
    finished,         \* the group tasks that returned, in the order they did
    ret,              \* what the call returned, once it has
    call,             \* a call of one of the helpers of utils_test.go, and its result
    plan              \* splitSliceBySizeLimit and the budget test on a long list,
                      \* one iteration of its loop at a time

vars == << objectList, estimatedSize, userMaxPartSize, sedErr, sizeLimit, pc,
           groups, mpu, tasks, next, gerr, parts, partsSizeList, calls, sent,
           gets, uploadReqs, stored, completeArg, dest, finished, ret, call,
           plan >>

\* what buildInMemoryConcat never assigns
inputs == << objectList, estimatedSize, userMaxPartSize, sedErr, call, plan >>

\* the record of the requests
log == << calls, sent >>

Operations ==
    { "GetObject", "PutObject", "CreateMultipartUpload", "UploadPart",
      "CompleteMultipartUpload", "AbortMultipartUpload", "UploadPartCopy",
      "DeleteObject" }

Called(op) == [calls EXCEPT ![op] = @ + 1]

\* a request: the operation, and the bucket and key of its input
Request(op, at) == [op |-> op, at |-> at]

\* opts.DstBucket, opts.DstKey
Destination == << "dst", 0 >>

\* object.Bucket, object.Key of member m of the object list
Source(m) == << "src", m >>

\* s3.GetObjectInput, line 305
getObjectInput(m) == Request("GetObject", Source(m))

\* s3.PutObjectInput, lines 174-182
putObjectInput == Request("PutObject", Destination)

\* s3.CreateMultipartUploadInput, lines 57-66
createMultipartUploadInput == Request("CreateMultipartUpload", Destination)

\* an UploadPart addressed to the first object of the group
uploadPartInputAtSource(i) == Request("UploadPart", Source(groups[i][1]))

\* s3.UploadPartInput, lines 95 and 205-212
uploadPartInput(i) == Request("UploadPart", Destination)

\* s3.CompleteMultipartUploadInput, lines 119-126
completeMultipartUploadInput == Request("CompleteMultipartUpload", Destination)

\* client.<op>(ctx, input)
Send(r) ==
    /\ calls' = Called(r.op)
    /\ sent' = sent \cup { r }

\* no long list being split
NoPlan ==
    [pc |-> "none", n |-> 0, size |-> 0, groupSizeLimit |-> 0, i |-> 0,
     groups |-> <<>>, currentGroup |-> <<>>, currentSize |-> 0, err |-> "nil"]

\* no helper called
NoCall == [fn |-> "none", s |-> <<>>, pattern |-> <<>>, out |-> <<>>]

\* types.CompletedPart; PartNumber 0 and ETag <<>> are the nil pointers
CompletedPart(partNumber, etag) == [PartNumber |-> partNumber, ETag |-> etag]

\* the ETag the store returns for an uploaded part
ETagOf(partNum, data) == << partNum, Length(data) >>

\* a tarGroup call on the members `list`, not yet started
NewTask(list) ==
    [st |-> "idle", list |-> list, pos |-> 0, buf |-> <<>>,
     short |-> FALSE, pad |-> 0, err |-> "nil"]

Failed(t, e) == [t EXCEPT !.st = "failed", !.err = e]

\* the (*S3Obj, error) pair returned; size is the Size of the object
Returned(err, size) == [done |-> TRUE, err |-> err, size |-> size]

\* before any request
Idle ==
    /\ pc = "start"
    /\ sizeLimit = 0
    /\ groups = <<>>
    /\ mpu = ""
    /\ tasks = <<>>
    /\ next = 1
    /\ gerr = "nil"
    /\ parts = <<>>
    /\ partsSizeList = <<>>
    /\ calls = [op \in Operations |-> 0]
    /\ sent = {}
    /\ call = NoCall
    /\ gets = [m \in 1..Len(objectList) |-> 0]
    /\ uploadReqs = <<>>
    /\ stored = <<>>
    /\ completeArg = <<>>
    /\ dest = <<>>
    /\ finished = <<>>
    /\ ret = [done |-> FALSE, err |-> "nil", size |-> 0]

\* an estimate of fileSizeMin or more is the estimate of some object
Init ==
    /\ objectList \in ObjectLists
    /\ estimatedSize \in EstimatedSizes
    /\ estimatedSize >= fileSizeMin => objectList # <<>>
    /\ userMaxPartSize \in UserMaxPartSizes
    /\ sedErr \in BOOLEAN
    /\ plan = NoPlan
    /\ Idle

\* return nil, err
Fail(e) ==
    /\ ret' = Returned(e, 0)
    /\ pc' = "done"

(***************************************************************************)
(* Lines 22-50: the size checks and the grouping, before any request.      *)
(***************************************************************************)
\* the size test with >= for >
atOrOverPartSizeMax(largestObjectSize) == largestObjectSize >= partSizeMax

\* line 24
overPartSizeMax(largestObjectSize) == largestObjectSize > partSizeMax

\* the budget test, one part too generous
overPartBudgetOffByOne(n) == n > maxPartNumLimit + 1

\* line 48
overPartBudget(n) == n > maxPartNumLimit

Start ==
    /\ pc = "start"
    /\ IF overPartSizeMax(findLargestObject(objectList))
       THEN /\ Fail("largest object is over the 5GiB limit")
            /\ UNCHANGED << sizeLimit, groups, tasks >>
       ELSE IF estimatedSize < fileSizeMin
       THEN /\ pc' = "tar"
            /\ tasks' = << [NewTask([i \in 1..Len(objectList) |-> i])
                              EXCEPT !.st = "run"] >>
            /\ UNCHANGED << sizeLimit, groups, ret >>
       ELSE LET limit == findMinimumPartSize(estimatedSize, userMaxPartSize)
                gs == splitSliceBySizeLimit(limit, objectList)
            IN  /\ sizeLimit' = limit
                /\ groups' = gs
                /\ IF overPartBudget(Len(gs))
                   THEN Fail("number of parts exceeded the number of mpu parts allowed")
                   ELSE pc' = "create" /\ UNCHANGED ret
                /\ UNCHANGED tasks
    /\ UNCHANGED << inputs, mpu, next, gerr, parts, partsSizeList, log, gets,
                    uploadReqs, stored, completeArg, dest, finished >>

(***************************************************************************)
(* Lines 57-73: CreateMultipartUpload, then the part-result arrays.        *)
(***************************************************************************)
CreateMultipartUpload ==
    /\ pc = "create"
    /\ Send(createMultipartUploadInput)
    /\ \/ /\ mpu' = "upload"
          /\ parts' = [i \in 1..Len(groups) |-> CompletedPart(0, <<>>)]
          /\ partsSizeList' = [i \in 1..Len(groups) |-> 0]
          /\ stored' = [i \in 1..Len(groups) |-> <<>>]
          /\ uploadReqs' = [i \in 1..Len(groups) |-> 0]
          /\ tasks' = [i \in 1..Len(groups) |-> NewTask(groups[i])]
          /\ pc' = "dispatch"
          /\ UNCHANGED ret
       \/ /\ Fail("CreateMultipartUpload")
          /\ UNCHANGED << mpu, parts, partsSizeList, stored, uploadReqs, tasks >>
    /\ UNCHANGED << inputs, sizeLimit, groups, next, gerr, gets, completeArg,
                    dest, finished >>

(***************************************************************************)
(* tarGroup, lines 218-272, one member at a time.  The tar writer keeps    *)
(* the padding of the current member pending until the next Flush, and     *)
(* refuses more payload than the header declared.                          *)
(***************************************************************************)
\* tw.WriteHeader (its Flush included) and io.Copy of `payload` bytes, lines 241-259
tarMember(t, m, o, payload) ==
    IF t.short
    THEN Failed(t, "archive/tar: missed writing")
    ELSE IF payload > o.Size
    THEN Failed(t, "archive/tar: write too long")
    ELSE [t EXCEPT !.buf = Cat(Cat(Cat(t.buf, Zeros(t.pad)),
                                   Bytes("hdr", m, o.Hdr)),
                               Bytes("data", m, payload)),
                   !.short = payload < o.Size,
                   !.pad = Padding(o.Size),
                   !.pos = @ + 1]

\* lines 236-259, once the payload reader is there
tarEntry(t, m, o, payload) ==
    IF sedErr THEN Failed(t, "applySedExpression")
    ELSE tarMember(t, m, o, payload)

\* tw.Flush without tw.Close: no trailer
tarCloseNoTrailer(t) ==
    IF t.short
    THEN Failed(t, "archive/tar: missed writing")
    ELSE [t EXCEPT !.buf = Cat(t.buf, Zeros(t.pad)), !.pad = 0]

\* the errors of tw.Flush and tw.Close dropped
tarCloseUnchecked(t) ==
    [t EXCEPT !.buf = Cat(Cat(t.buf, Zeros(t.pad)), Zeros(2 * blockSize)),
              !.pad = 0]

\* tw.Flush and tw.Close, lines 263-270: the pending padding, then the trailer
tarClose(t) ==
    IF t.short
    THEN Failed(t, "archive/tar: missed writing")
    ELSE [t EXCEPT !.buf = Cat(Cat(t.buf, Zeros(t.pad)), Zeros(2 * blockSize)),
                   !.pad = 0]

\* the error of tarGroup dropped, that of uploadPart returned
taskReturnUploadOnly(t) == IF t.err = "UploadPart" THEN t.err ELSE "nil"

\* the error the function of lines 82-106 returns to the errgroup
taskReturn(t) == IF t.st = "failed" THEN t.err ELSE "nil"

\* what becomes of a task's result: the errgroup keeps the first error
\* (lines 82-111); the call of line 29 returns it at once (lines 30-32)
Settle(i, t) ==
    /\ tasks' = [tasks EXCEPT ![i] = t]
    /\ IF t.st = "failed" /\ pc = "tar"
       THEN Fail(t.err)
       ELSE UNCHANGED << pc, ret >>
    /\ gerr' = IF pc # "tar" /\ gerr = "nil" THEN taskReturn(t) ELSE gerr
    /\ finished' = IF pc # "tar" /\ t.st \in { "done", "failed" }
                   THEN Append(finished, i) ELSE finished

\* every object taken to need a download
hasNoInlineData(o) == FALSE

\* len(o.Data) > 0, line 226
hasInlineData(o) == o.Data > 0

\* one iteration of the loop of line 222
TarStep(i) ==
    /\ tasks[i].st = "run"
    /\ tasks[i].pos < Len(tasks[i].list)
    /\ LET t == tasks[i]
           m == t.list[t.pos + 1]
           o == objectList[m]
       IN  IF hasInlineData(o)
           THEN /\ Settle(i, tarEntry(t, m, o, o.Data))
                /\ UNCHANGED << log, gets >>
           ELSE /\ Send(getObjectInput(m))
                /\ gets' = [gets EXCEPT ![m] = @ + 1]
                /\ \/ Settle(i, tarEntry(t, m, o, o.Body))
                   \/ Settle(i, Failed(t, "GetObject"))
    /\ UNCHANGED << inputs, sizeLimit, groups, mpu, next, parts, partsSizeList,
                    uploadReqs, stored, completeArg, dest >>

(***************************************************************************)
(* The small regime, lines 28-33 and uploadObject, lines 172-200.          *)
(***************************************************************************)
PutObject ==
    /\ pc = "tar"
    /\ tasks[1].st = "run"
    /\ tasks[1].pos = Len(tasks[1].list)
    /\ LET t == tarClose(tasks[1])
       IN  /\ tasks' = [tasks EXCEPT ![1] = IF t.st = "failed" THEN t
                                            ELSE [t EXCEPT !.st = "done"]]
           /\ IF t.st = "failed"
              THEN /\ Fail(t.err)
                   /\ UNCHANGED << log, dest >>
              ELSE /\ Send(putObjectInput)
                   /\ \/ /\ dest' = Append(dest, t.buf)
                         /\ ret' = Returned("nil", Length(t.buf))
                         /\ pc' = "done"
                      \/ /\ Fail("PutObject")
                         /\ UNCHANGED dest
    /\ UNCHANGED << inputs, sizeLimit, groups, mpu, next, gerr, parts,
                    partsSizeList, gets, uploadReqs, stored, completeArg, finished >>

(***************************************************************************)
(* The multipart regime: processGroups, lines 75-112.                      *)
(***************************************************************************)
Running == { i \in 1..Len(tasks) : tasks[i].st = "run" }

\* an errgroup without a limit
slotFreeAlways == TRUE

\* an errgroup whose limit lets no task start
slotFreeNever == FALSE

\* g.SetLimit(threads): g.Go starts a task only when fewer than threads run
slotFree == Cardinality(Running) < threads

\* g.Go, lines 79-108
Dispatch ==
    /\ pc = "dispatch"
    /\ next <= Len(groups)
    /\ slotFree
    /\ tasks' = [tasks EXCEPT ![next].st = "run"]
    /\ next' = next + 1
    /\ UNCHANGED << inputs, sizeLimit, pc, groups, mpu, gerr, parts,
                    partsSizeList, log, gets, uploadReqs, stored, completeArg,
                    dest, finished, ret >>

\* part numbers handed out as the tasks get to their upload
partNumByCompletion(i) == Len(finished) + 1

\* partNum := int32(i + 1), for the code's 0-based i = i - 1
partNumOf(i) == i

\* the cut made on the last group as well
stripEOFAlways(i, data) == Take(data, Length(data) - 1024)

\* lines 91-93: all groups but the last lose the tar end-of-archive blocks
stripEOF(i, data) ==
    IF i # Len(groups) THEN Take(data, Length(data) - 1024) ELSE data

\* results appended in the order the tasks get to their end
resultIndexByCompletion(i) == Len(finished) + 1

\* the element of parts and partsSizeList task i writes, lines 99 and 104
resultIndex(i) == i

\* the length of the buffer as tarGroup returned it
partSizeBeforeStrip(t, data) == Length(t.buf)

\* int64(len(data)), line 104: the length of what was uploaded
partSize(t, data) == Length(data)

\* lines 89-105, after the loop of tarGroup ended
UploadPart(i) ==
    /\ pc = "dispatch"
    /\ tasks[i].st = "run"
    /\ tasks[i].pos = Len(tasks[i].list)
    /\ LET t == tarClose(tasks[i])
           partNum == partNumOf(i)
           data == stripEOF(i, t.buf)
       IN  IF t.st = "failed"
           THEN /\ Settle(i, t)
                /\ UNCHANGED << log, uploadReqs, stored, parts, partsSizeList >>
           ELSE /\ Send(uploadPartInput(i))
                /\ uploadReqs' = [uploadReqs EXCEPT ![partNum] = @ + 1]
                /\ \/ /\ stored' = [stored EXCEPT ![partNum] = Append(@, data)]
                      /\ parts' = [parts EXCEPT
                                     ![resultIndex(i)] =
                                         CompletedPart(partNum, ETagOf(partNum, data))]
                      /\ partsSizeList' = [partsSizeList EXCEPT
                                             ![resultIndex(i)] = partSize(t, data)]
                      /\ Settle(i, [t EXCEPT !.st = "done", !.buf = data])
                   \/ /\ Settle(i, Failed(t, "UploadPart"))
                      /\ UNCHANGED << stored, parts, partsSizeList >>
    /\ UNCHANGED << inputs, sizeLimit, groups, mpu, next, gets, completeArg, dest >>

\* a wait that only waits for the dispatch loop
waitReturnsAfterDispatch == next > Len(groups)

\* a wait that gives up at the first error
waitReturnsOnFirstError == (next > Len(groups) /\ Running = {}) \/ gerr # "nil"

\* g.Wait returns once every task that was started has returned
waitReturns == next > Len(groups) /\ Running = {}

\* lines 111-116
Wait ==
    /\ pc = "dispatch"
    /\ waitReturns
    /\ IF gerr # "nil"
       THEN Fail(gerr)
       ELSE pc' = "complete" /\ UNCHANGED ret
    /\ UNCHANGED << inputs, sizeLimit, groups, mpu, tasks, next, gerr, parts,
                    partsSizeList, log, gets, uploadReqs, stored, completeArg,
                    dest, finished >>

RECURSIVE sumSlice(_)
sumSlice(s) == IF s = <<>> THEN 0 ELSE s[1] + sumSlice(Tail(s))

RECURSIVE Assemble(_, _)
\* the object the store assembles from a Parts list: the stored bodies, in list order
Assemble(ps, st) ==
    IF ps = <<>> THEN <<>>
    ELSE LET bodies == st[ps[1].PartNumber]
         IN  Cat(bodies[Len(bodies)], Assemble(Tail(ps), st))

\* the store accepts a Parts list that is not empty and names stored parts
\* by their ETags
Acceptable(ps, st) ==
    /\ Len(ps) > 0
    /\ \A k \in 1..Len(ps) :
        /\ ps[k].PartNumber \in 1..Len(st)
        /\ st[ps[k].PartNumber] # <<>>
        /\ ps[k].ETag = ETagOf(ps[k].PartNumber,
                               st[ps[k].PartNumber][Len(st[ps[k].PartNumber])])

\* lines 118-147
CompleteMultipartUpload ==
    /\ pc = "complete"
    /\ Send(completeMultipartUploadInput)
    /\ completeArg' = Append(completeArg, parts)
    /\ \/ /\ Acceptable(parts, stored)
          /\ dest' = Append(dest, Assemble(parts, stored))
          /\ ret' = Returned("nil", sumSlice(partsSizeList))
          /\ pc' = "done"
       \/ /\ Fail("CompleteMultipartUpload")
          /\ UNCHANGED dest
    /\ UNCHANGED << inputs, sizeLimit, groups, mpu, tasks, next, gerr, parts,
                    partsSizeList, gets, uploadReqs, stored, finished >>

Next ==
    \/ Start
    \/ CreateMultipartUpload
    \/ Dispatch
    \/ \E i \in 1..Len(tasks) : TarStep(i)
    \/ \E i \in 1..Len(tasks) : UploadPart(i)
    \/ Wait
    \/ CompleteMultipartUpload
    \/ PutObject

Spec == Init /\ [][Next]_vars

(***************************************************************************)
(* splitSliceBySizeLimit on its own: any object list of the sizes below    *)
(* with any ceiling, in range or not.                                      *)
(***************************************************************************)
SplitSizes ==
    { 0, 700, fileSizeMin - 1, fileSizeMin, fileSizeMin + 1, partSizeMax }

SplitLimits ==
    { -1, 0, 1, fileSizeMin - 1, fileSizeMin, fileSizeMin + 1, partSizeMax }

SplitLists ==
    UNION { [1..n -> { S3Obj(sz, 0, sz, blockSize) : sz \in SplitSizes }] :
              n \in 0..MaxObjs }

InitSplit ==
    /\ objectList \in SplitLists
    /\ estimatedSize = fileSizeMin
    /\ userMaxPartSize = 0
    /\ sedErr = FALSE
    /\ plan = NoPlan
    /\ Idle

\* line 47, with groupSizeLimit taken from SplitLimits
Split ==
    /\ pc = "start"
    /\ \E limit \in SplitLimits :
           /\ sizeLimit' = limit
           /\ groups' = splitSliceBySizeLimit(limit, objectList)
    /\ pc' = "split"
    /\ UNCHANGED << inputs, mpu, tasks, next, gerr, parts, partsSizeList, log,
                    gets, uploadReqs, stored, completeArg, dest, finished, ret >>

NextSplit == Split

SplitSpec == InitSplit /\ [][NextSplit]_vars

RECURSIVE tarLoop(_)
\* the loop of tarGroup on a task whose every payload has its declared size
tarLoop(t) ==
    IF t.pos = Len(t.list) THEN t
    ELSE LET m == t.list[t.pos + 1]
         IN  tarLoop(tarMember(t, m, objectList[m], objectList[m].Size))

\* the buffer tarGroup returns for a group, line 270
tarGroup(g) == tarClose(tarLoop(NewTask(g))).buf

(***************************************************************************)
(* The tar stream of a sequence of members, as the format defines it.      *)
(***************************************************************************)
\* header, payload of the declared size, padding to a block boundary
member(m) ==
    Cat(Cat(Bytes("hdr", m, objectList[m].Hdr),
            Bytes("data", m, objectList[m].Size)),
        Zeros(Padding(objectList[m].Size)))

RECURSIVE members(_)
members(g) == IF g = <<>> THEN <<>> ELSE Cat(member(g[1]), members(Tail(g)))

\* the two zero blocks that end an archive
trailer == Zeros(2 * blockSize)

\* the archive of the whole object list, built in one piece
archive == Cat(members([i \in 1..Len(objectList) |-> i]), trailer)

\* the bytes group i contributes to the archive
expectedPart(i) ==
    IF i = Len(groups) THEN Cat(members(groups[i]), trailer)
    ELSE members(groups[i])

RECURSIVE partsConcat(_)
\* the bodies stored for part numbers 1..n, in that order
partsConcat(n) ==
    IF n = 0 THEN <<>>
    ELSE Cat(partsConcat(n - 1), stored[n][Len(stored[n])])

Succeeded == ret.done /\ ret.err = "nil"

Multipart == mpu # ""

(***************************************************************************)
(* C1.  In the multipart regime every part body that is uploaded is the    *)
(* tar stream of its group's members, without the trailer for every group  *)
(* but the last and with it for the last, so what is cut from a buffer is  *)
(* its two zero blocks only; and after a successful run the bodies of      *)
(* parts 1..N, in that order, are the archive of the whole object list.    *)
(***************************************************************************)
C1_PartsAreTheArchive ==
    Multipart =>
        /\ \A i \in 1..Len(stored) :
               \A k \in 1..Len(stored[i]) : stored[i][k] = expectedPart(i)
        /\ Succeeded =>
               /\ \A i \in 1..Len(stored) : stored[i] # <<>>
               /\ partsConcat(Len(groups)) = archive
               /\ dest = << archive >>

\* a successful run of three parts, one of them of several members, one
\* whose last member needed padding
C1_Witness ==
    /\ Multipart
    /\ Succeeded
    /\ Len(groups) = 3
    /\ \E i \in 1..2 : /\ Len(groups[i]) > 1
                       /\ Padding(objectList[groups[i][Len(groups[i])]].Size) > 0

(***************************************************************************)
(* C2.  Whatever the ceiling, every group splitSliceBySizeLimit returns    *)
(* but the last has a cumulative member size above fileSizeMin, and the    *)
(* part built from it (its tar buffer without the last 1024 bytes) is at   *)
(* least fileSizeMin long.                                                 *)
(***************************************************************************)
C2_NonTerminalGroupsAboveMin ==
    pc = "split" =>
        \A i \in 1..(Len(groups) - 1) :
            /\ GroupSize(objectList, groups[i]) > fileSizeMin
            /\ Length(stripEOF(i, tarGroup(groups[i]))) >= fileSizeMin

\* a ceiling below fileSizeMin, and a non-terminal group of several members
\* none of which reaches fileSizeMin
C2_Witness ==
    /\ pc = "split"
    /\ sizeLimit <= 0
    /\ Len(groups) > 1
    /\ Len(groups[1]) > 1
    /\ \A k \in 1..Len(groups[1]) : objectList[groups[1][k]].Size < fileSizeMin

NoRequest == \A op \in Operations : calls[op] = 0

(***************************************************************************)
(* C3.  When the grouping yields more than maxPartNumLimit groups the call *)
(* has returned the part-budget error and has sent no request at all; so a *)
(* multipart upload that was created has at most maxPartNumLimit groups,   *)
(* and the part numbers used for it lie in 1..maxPartNumLimit.             *)
(***************************************************************************)
C3_PartBudget ==
    /\ Len(groups) > maxPartNumLimit =>
           /\ ret.done
           /\ ret.err = "number of parts exceeded the number of mpu parts allowed"
           /\ NoRequest
           /\ ~Multipart
    /\ calls["CreateMultipartUpload"] > 0 =>
           /\ Len(groups) <= maxPartNumLimit
           /\ \A pn \in DOMAIN uploadReqs : pn \in 1..maxPartNumLimit
           /\ \A i \in 1..Len(parts) : parts[i].PartNumber \in 0..maxPartNumLimit

\* one group more than the budget allows, and the call has returned
C3_Witness ==
    /\ Len(groups) = maxPartNumLimit + 1
    /\ ret.done
    /\ pc = "done"

(***************************************************************************)
(* C4.  A run that fails after CreateMultipartUpload succeeded has sent    *)
(* AbortMultipartUpload by the time it returns.                            *)
(***************************************************************************)
C4_AbortOnFailure ==
    (ret.done /\ ret.err # "nil" /\ Multipart) =>
        calls["AbortMultipartUpload"] > 0

(***************************************************************************)
(* C5.  Once CompleteMultipartUpload has been sent, every group task has   *)
(* returned without error, each part number 1..N was uploaded by exactly   *)
(* one UploadPart and that one succeeded, and the Parts list sent has N    *)
(* entries, entry i with PartNumber i and the ETag returned for part i.    *)
(***************************************************************************)
C5_CompleteAfterAllParts ==
    calls["CompleteMultipartUpload"] > 0 =>
        /\ \A i \in 1..Len(tasks) : tasks[i].st = "done"
        /\ Len(tasks) = Len(groups)
        /\ \A pn \in 1..Len(groups) :
               uploadReqs[pn] = 1 /\ Len(stored[pn]) = 1
        /\ Len(completeArg) = 1
        /\ Len(completeArg[1]) = Len(groups)
        /\ \A i \in 1..Len(groups) :
               /\ completeArg[1][i].PartNumber = i
               /\ completeArg[1][i].ETag = ETagOf(i, stored[i][1])

\* CompleteMultipartUpload sent for three parts
C5_Witness ==
    /\ calls["CompleteMultipartUpload"] = 1
    /\ Len(groups) = 3
    /\ Len(completeArg[1]) = 3

(***************************************************************************)
(* C6.  Whatever the order in which the group tasks ran and returned, a    *)
(* successful run sent the Parts list that the plan alone determines:      *)
(* entry i is part number i, and part number i is the content of group i.  *)
(***************************************************************************)
C6_LayoutIndependentOfSchedule ==
    (Succeeded /\ Multipart) =>
        /\ completeArg =
               << [i \in 1..Len(groups) |->
                      CompletedPart(i, ETagOf(i, expectedPart(i)))] >>
        /\ stored = [i \in 1..Len(groups) |-> << expectedPart(i) >>]

\* a successful run of three groups whose first group returned last
C6_Witness ==
    /\ Succeeded
    /\ Multipart
    /\ Len(finished) = 3
    /\ finished[1] = 2
    /\ finished[3] = 1

(***************************************************************************)
(* C7.  With estimatedSize below fileSizeMin and no member above           *)
(* partSizeMax, no multipart request is ever sent, at most one PutObject   *)
(* is sent, its body is the archive of the whole list (trailer included),  *)
(* and a successful run has sent exactly one and left that archive at the  *)
(* destination.                                                            *)
(***************************************************************************)
C7_SmallArchiveSinglePut ==
    (estimatedSize < fileSizeMin
       /\ \A m \in 1..Len(objectList) : objectList[m].Size <= partSizeMax) =>
        /\ calls["CreateMultipartUpload"] = 0
        /\ calls["UploadPart"] = 0
        /\ calls["CompleteMultipartUpload"] = 0
        /\ calls["PutObject"] <= 1
        /\ calls["PutObject"] = 1 => tasks[1].buf = archive
        /\ Succeeded =>
               /\ calls["PutObject"] = 1
               /\ dest = << archive >>
               /\ ret.size = Length(archive)

\* one member of 4 MiB: a single PutObject of 4 MiB + 512 + 1024 bytes
C7_Witness ==
    /\ Succeeded
    /\ estimatedSize < fileSizeMin
    /\ Len(objectList) = 1
    /\ objectList[1].Size = 4194304
    /\ calls["PutObject"] = 1
    /\ Length(dest[1]) = 4194304 + 512 + 1024

(***************************************************************************)
(* C8.  With a member above partSizeMax the call returns the               *)
(* object-too-large error without having sent any request, whatever        *)
(* estimatedSize is; without such a member (one of exactly partSizeMax     *)
(* included) it never returns that error.                                  *)
(***************************************************************************)
C8_ObjectTooLarge ==
    IF \E m \in 1..Len(objectList) : objectList[m].Size > partSizeMax
    THEN /\ NoRequest
         /\ pc # "start" =>
                /\ ret.done
                /\ ret.err = "largest object is over the 5GiB limit"
    ELSE ret.err # "largest object is over the 5GiB limit"

\* refused in the multipart regime, with a member of exactly partSizeMax
\* next to the one above it
C8_Witness ==
    /\ ret.done
    /\ ret.err = "largest object is over the 5GiB limit"
    /\ estimatedSize >= fileSizeMin
    /\ \E m \in 1..Len(objectList) : objectList[m].Size = partSizeMax

(***************************************************************************)
(* C9.  No group of the grouping has a cumulative size above partSizeMax.  *)
(***************************************************************************)
C9_GroupsWithinPartSizeMax ==
    \A i \in 1..Len(groups) :
        GroupSize(objectList, groups[i]) <= partSizeMax

(***************************************************************************)
(* C10.  Once GetObject has failed for a member of a group, no UploadPart  *)
(* is sent for that group, neither CompleteMultipartUpload nor PutObject   *)
(* is sent, nothing is written at the destination, and what the call       *)
(* returns is the error of a failed task.                                  *)
(***************************************************************************)
C10_FetchErrorStopsRun ==
    \A i \in 1..Len(tasks) :
        tasks[i].err = "GetObject" =>
            /\ Multipart => uploadReqs[i] = 0 /\ stored[i] = <<>>
            /\ calls["CompleteMultipartUpload"] = 0
            /\ calls["PutObject"] = 0
            /\ dest = <<>>
            /\ ret.done =>
                   /\ ret.err # "nil"
                   /\ \E j \in 1..Len(tasks) :
                          tasks[j].st = "failed" /\ ret.err = tasks[j].err

\* the fetch of the second group failed after the first group was uploaded,
\* and the call has returned
C10_Witness ==
    /\ Multipart
    /\ ret.done
    /\ Len(tasks) >= 2
    /\ tasks[1].st = "done"
    /\ tasks[2].err = "GetObject"

RECURSIVE headerMembers(_)
\* the members whose headers a stream holds, in stream order
headerMembers(stream) ==
    IF stream = <<>> THEN <<>>
    ELSE IF stream[1].k = "hdr"
         THEN <<stream[1].m>> \o headerMembers(Tail(stream))
         ELSE headerMembers(Tail(stream))

\* the entries of the object list, in input order
entries == [i \in 1..Len(objectList) |-> i]

(***************************************************************************)
(* C12.  No member is synthesized: every tarGroup call works on entries of *)
(* the object list only, each uploaded part holds the headers of the       *)
(* entries of its group, in order, and the object a successful run leaves  *)
(* at the destination (by PutObject or by multipart upload) holds one      *)
(* header per entry of the object list, in input order, the first one that *)
(* of the first entry.                                                     *)
(***************************************************************************)
C12_NoTocMember ==
    /\ \A i \in 1..Len(tasks) :
           \A k \in 1..Len(tasks[i].list) :
               tasks[i].list[k] \in 1..Len(objectList)
    /\ \A i \in 1..Len(stored) :
           \A k \in 1..Len(stored[i]) :
               headerMembers(stored[i][k]) = groups[i]
    /\ calls["PutObject"] = 1 => headerMembers(tasks[1].buf) = entries
    /\ Succeeded =>
           /\ Len(dest) = 1
           /\ headerMembers(dest[1]) = entries

\* a successful multipart run on three entries or more, the first of them
\* an inline one
C12_Witness ==
    /\ Succeeded
    /\ Multipart
    /\ Len(objectList) >= 3
    /\ objectList[1].Data > 0
    /\ Len(groups) >= 2

(***************************************************************************)
(* C13.  At most threads group tasks execute at any moment, so at most     *)
(* threads group buffers are being filled or uploaded; a group is only     *)
(* dispatched while fewer than threads tasks run, and the tasks that run   *)
(* in the multipart regime are tasks that were dispatched.                 *)
(***************************************************************************)
C13_WorkerBound ==
    /\ Cardinality(Running) <= threads
    /\ Cardinality({ i \in 1..Len(tasks) :
                       tasks[i].st = "run" /\ tasks[i].buf # <<>> }) <= threads
    /\ Multipart => \A i \in Running : i < next

\* threads tasks run and a further group waits for a free slot
C13_Witness ==
    /\ pc = "dispatch"
    /\ Cardinality(Running) = threads
    /\ next <= Len(groups)
    /\ \A i \in Running : tasks[i].buf # <<>>

\* the members of the object list that carry no inline data
remoteMembers == { m \in 1..Len(objectList) : objectList[m].Data = 0 }

(***************************************************************************)
(* C14.  In a successful multipart run every member lies in exactly one    *)
(* group, one GetObject was issued for each member without inline data and *)
(* none for a member with inline data, one UploadPart was issued for each  *)
(* group, and CreateMultipartUpload and CompleteMultipartUpload were each  *)
(* issued once; no PutObject was issued.                                   *)
(***************************************************************************)
C14_RequestCounts ==
    (Succeeded /\ Multipart) =>
        /\ \A m \in 1..Len(objectList) :
               /\ Cardinality({ i \in 1..Len(groups) :
                                  \E k \in 1..Len(groups[i]) :
                                      groups[i][k] = m }) = 1
               /\ gets[m] = IF m \in remoteMembers THEN 1 ELSE 0
        /\ calls["GetObject"] = Cardinality(remoteMembers)
        /\ \A i \in 1..Len(groups) : uploadReqs[i] = 1
        /\ calls["UploadPart"] = Len(groups)
        /\ calls["CreateMultipartUpload"] = 1
        /\ calls["CompleteMultipartUpload"] = 1
        /\ calls["PutObject"] = 0

\* a successful multipart run of several groups over inline and remote
\* members
C14_Witness ==
    /\ Succeeded
    /\ Multipart
    /\ Len(groups) >= 2
    /\ remoteMembers # {}
    /\ \E m \in 1..Len(objectList) : m \notin remoteMembers

(***************************************************************************)
(* The string helpers of the package, exercised by utils_test.go.  A       *)
(* string is a sequence of one-character strings.  call records the last   *)
(* helper call: its arguments and what it returned.                        *)
(***************************************************************************)
MaxTail == 4

RECURSIVE Strings(_, _)
\* the strings over an alphabet, of length n or less
Strings(alphabet, n) ==
    IF n = 0 THEN { <<>> }
    ELSE LET shorter == Strings(alphabet, n - 1)
         IN  shorter \cup { Append(s, c) : s \in shorter, c \in alphabet }

HasPrefix(s, prefix) ==
    /\ Len(s) >= Len(prefix)
    /\ SubSeq(s, 1, Len(prefix)) = prefix

\* the index of the first c in s, 0 when there is none
Index(s, c) ==
    IF \E i \in 1..Len(s) : s[i] = c
    THEN CHOOSE i \in 1..Len(s) :
             s[i] = c /\ \A j \in 1..(i - 1) : s[j] # c
    ELSE 0

s3Scheme == << "s", "3", ":", "/", "/" >>

\* the key taken with the slash that separates it from the bucket
extractKeepingSlash(s3url) ==
    IF ~HasPrefix(s3url, s3Scheme) THEN << <<>>, <<>> >>
    ELSE LET rest == SubSeq(s3url, Len(s3Scheme) + 1, Len(s3url))
             i == Index(rest, "/")
         IN  IF i = 0 THEN << rest, <<>> >>
             ELSE << SubSeq(rest, 1, i - 1), SubSeq(rest, i, Len(rest)) >>

\* (bucket, path) of an s3:// URI; two empty strings for anything else
ExtractBucketAndPath(s3url) ==
    IF ~HasPrefix(s3url, s3Scheme) THEN << <<>>, <<>> >>
    ELSE LET rest == SubSeq(s3url, Len(s3Scheme) + 1, Len(s3url))
             i == Index(rest, "/")
         IN  IF i = 0 THEN << rest, <<>> >>
             ELSE << SubSeq(rest, 1, i - 1), SubSeq(rest, i + 1, Len(rest)) >>

\* what an input starts with: the scheme, parts of it, other schemes, a
\* local path, nothing
UrlHeads ==
    { s3Scheme,
      << "s", "3", ":", "/" >>,
      << "s", "3" >>,
      << "s", "3", "/", "/" >>,
      << "a", ":", "/", "/" >>,
      << "/", "s", "3", ":", "/", "/" >>,
      << "/" >>,
      <<>> }

UrlTails == Strings({ "a", "b", "/" }, MaxTail)

UrlInputs == { head \o tail : head \in UrlHeads, tail \in UrlTails }

bucketName == << "b", "u", "c", "k", "e", "t" >>
prefixName == << "p", "r", "e", "f", "i", "x" >>

\* the table of TestExtractBucketAndPath
ExtractTests ==
    { [s3url |-> s3Scheme \o bucketName \o << "/" >> \o prefixName,
       wantBucket |-> bucketName, wantPath |-> prefixName],
      [s3url |-> s3Scheme \o bucketName \o << "/" >> \o prefixName \o << "/" >>,
       wantBucket |-> bucketName, wantPath |-> prefixName \o << "/" >>],
      [s3url |-> s3Scheme \o bucketName,
       wantBucket |-> bucketName, wantPath |-> <<>>],
      [s3url |-> << "/", "h", "o", "m", "e", "/", "y", "a", "n", "k", "o" >>,
       wantBucket |-> <<>>, wantPath |-> <<>>],
      [s3url |-> <<>>, wantBucket |-> <<>>, wantPath |-> <<>>] }

Returns(fn, s, pattern, out) ==
    /\ call' = [fn |-> fn, s |-> s, pattern |-> pattern, out |-> out]
    /\ UNCHANGED << plan, objectList, estimatedSize, userMaxPartSize, sedErr,
                    sizeLimit, pc, groups, mpu, tasks, next, gerr, parts,
                    partsSizeList, log, gets, uploadReqs, stored, completeArg,
                    dest, finished, ret >>

InitUtil ==
    /\ objectList = <<>>
    /\ estimatedSize = fileSizeMin - 1
    /\ userMaxPartSize = 0
    /\ sedErr = FALSE
    /\ plan = NoPlan
    /\ Idle

ExtractCall ==
    /\ call = NoCall
    /\ \E s3url \in UrlInputs \cup { t.s3url : t \in ExtractTests } :
        Returns("ExtractBucketAndPath", s3url, <<>>,
                ExtractBucketAndPath(s3url))

NextExtract == ExtractCall

ExtractSpec == InitUtil /\ [][NextExtract]_vars

\* the strings a bucket name and a key are drawn from
BucketNames == Strings({ "a", "b" }, MaxTail) \ { <<>> }
Keys == Strings({ "a", "b", "/" }, MaxTail)

(***************************************************************************)
(* C15.  ExtractBucketAndPath returns (bucket, "") for s3://bucket and     *)
(* (bucket, key) for s3://bucket/key: the slash after the bucket is not    *)
(* part of the key, a slash at the end of the key is kept; for an input    *)
(* that does not begin with s3:// it returns two empty strings; on the     *)
(* rows of TestExtractBucketAndPath it returns what the test wants.        *)
(***************************************************************************)
C15_ExtractBucketAndPath ==
    call.fn = "ExtractBucketAndPath" =>
        /\ \A bucket \in BucketNames :
               /\ call.s = s3Scheme \o bucket => call.out = << bucket, <<>> >>
               /\ \A key \in Keys :
                      call.s = s3Scheme \o bucket \o << "/" >> \o key =>
                          call.out = << bucket, key >>
        /\ ~HasPrefix(call.s, s3Scheme) => call.out = << <<>>, <<>> >>
        /\ \A t \in ExtractTests :
               call.s = t.s3url => call.out = << t.wantBucket, t.wantPath >>

\* a call with a bucket and a key that ends in a slash
C15_Witness ==
    /\ call.fn = "ExtractBucketAndPath"
    /\ call.s = s3Scheme \o << "a", "/", "b", "/" >>
    /\ call.out = << << "a" >>, << "b", "/" >> >>

(***************************************************************************)
(* matchesRegexp.  The exclude pattern is translated character by          *)
(* character into a regular expression, the expression is compiled, and    *)
(* the whole input is matched against it.  A regular expression is a       *)
(* sequence of tokens.  The patterns drawn hold no "]", so that a "[" in   *)
(* one of them opens a character class that is never closed.               *)
(***************************************************************************)
MaxInput == 3
MaxPattern == 4

Token(t, c) == [t |-> t, c |-> c]

\* "." left as the regular expression's any-character
translateDotUnescaped(c) ==
    CASE c = "*" -> Token("many", "")
      [] c = "?" -> Token("any", "")
      [] c = "." -> Token("any", "")
      [] c = "|" -> Token("alt", "")
      [] c = "[" -> Token("class", "")
      [] OTHER   -> Token("lit", c)

\* "*" to ".*", "?" to ".", "." escaped, "|" and "[" left as they are
translateChar(c) ==
    CASE c = "*" -> Token("many", "")
      [] c = "?" -> Token("any", "")
      [] c = "|" -> Token("alt", "")
      [] c = "[" -> Token("class", "")
      [] OTHER   -> Token("lit", c)

translate(pattern) == [i \in 1..Len(pattern) |-> translateChar(pattern[i])]

\* a compiler that accepts every expression
compilesAlways(re) == TRUE

\* regexp.Compile: a character class that is not closed is an error
compiles(re) == \A i \in 1..Len(re) : re[i].t # "class"

RECURSIVE alternativesFrom(_, _, _)
\* the expression cut at its top-level "|"
alternativesFrom(re, i, current) ==
    IF i > Len(re) THEN << current >>
    ELSE IF re[i].t = "alt"
         THEN << current >> \o alternativesFrom(re, i + 1, <<>>)
         ELSE alternativesFrom(re, i + 1, Append(current, re[i]))

alternatives(re) == alternativesFrom(re, 1, <<>>)

RECURSIVE matchHere(_, _)
\* a backtracking match of the whole of s against one alternative
matchHere(re, s) ==
    IF re = <<>> THEN s = <<>>
    ELSE CASE re[1].t = "many" ->
                  \E k \in 0..Len(s) :
                      matchHere(Tail(re), SubSeq(s, k + 1, Len(s)))
           [] re[1].t = "any" ->
                  s # <<>> /\ matchHere(Tail(re), Tail(s))
           [] re[1].t = "lit" ->
                  s # <<>> /\ s[1] = re[1].c /\ matchHere(Tail(re), Tail(s))
           [] OTHER -> FALSE

MatchString(re, s) ==
    LET alts == alternatives(re)
    IN  \E a \in 1..Len(alts) : matchHere(alts[a], s)

\* (matched, error)
matchesRegexp(input, pattern) ==
    LET re == translate(pattern)
    IN  IF ~compiles(re) THEN << FALSE, TRUE >>
        ELSE << MatchString(re, input), FALSE >>

MatchInputs == Strings({ "a", ".", "[" }, MaxInput)

MatchPatterns == Strings({ "a", ".", "*", "?", "|", "[" }, MaxPattern)

fileTxt == << "f", "i", "l", "e", ".", "t", "x", "t" >>
dotTxt == << ".", "t", "x", "t" >>
dotJpg == << ".", "j", "p", "g" >>

\* the table of TestMatchesRegexp
MatchTests ==
    { [input |-> fileTxt, pattern |-> << "*" >> \o dotTxt,
       want |-> TRUE, wantErr |-> FALSE],
      [input |-> fileTxt, pattern |-> << "*" >> \o dotJpg,
       want |-> FALSE, wantErr |-> FALSE],
      [input |-> fileTxt,
       pattern |-> << "f", "i", "l", "e", ".", "?", "x", "t" >>,
       want |-> TRUE, wantErr |-> FALSE],
      [input |-> fileTxt,
       pattern |-> << "f", "i", "l", "e", ".", "?", "j", "p", "g" >>,
       want |-> FALSE, wantErr |-> FALSE],
      [input |-> fileTxt,
       pattern |-> << "*" >> \o dotJpg \o << "|", "*" >> \o dotTxt,
       want |-> TRUE, wantErr |-> FALSE],
      [input |-> fileTxt, pattern |-> << "[", "*" >> \o dotTxt,
       want |-> FALSE, wantErr |-> TRUE] }

MatchCall ==
    /\ call = NoCall
    /\ \/ \E input \in MatchInputs, pattern \in MatchPatterns :
              Returns("matchesRegexp", input, pattern,
                      matchesRegexp(input, pattern))
       \/ \E t \in MatchTests :
              Returns("matchesRegexp", t.input, t.pattern,
                      matchesRegexp(t.input, t.pattern))

NextMatch == MatchCall

MatchSpec == InitUtil /\ [][NextMatch]_vars

(***************************************************************************)
(* What a glob-like pattern means: the alternatives are the stretches of   *)
(* the pattern between its "|"; an alternative matches an input when the   *)
(* input can be consumed from its first to its last character, "*" taking  *)
(* any number of characters, "?" taking one, any other character taking    *)
(* itself.                                                                 *)
(***************************************************************************)
globAlternatives(pattern) ==
    { SubSeq(pattern, i, j) : << i, j >> \in
        { ij \in (1..(Len(pattern) + 1)) \X (0..Len(pattern)) :
            /\ ij[1] <= ij[2] + 1
            /\ \A k \in ij[1]..ij[2] : pattern[k] # "|"
            /\ ij[1] = 1 \/ pattern[ij[1] - 1] = "|"
            /\ ij[2] = Len(pattern) \/ pattern[ij[2] + 1] = "|" } }

RECURSIVE globReach(_, _, _)
\* how many characters of the input the first k characters of an
\* alternative may have consumed
globReach(alt, k, input) ==
    IF k = 0 THEN { 0 }
    ELSE LET before == globReach(alt, k - 1, input)
         IN  CASE alt[k] = "*" ->
                      { j \in 0..Len(input) : \E i \in before : i <= j }
               [] alt[k] = "?" ->
                      { i + 1 : i \in { b \in before : b < Len(input) } }
               [] OTHER ->
                      { i + 1 : i \in { b \in before :
                            b < Len(input) /\ input[b + 1] = alt[k] } }

globMatches(alt, input) == Len(input) \in globReach(alt, Len(alt), input)

globMatchesAny(pattern, input) ==
    \E alt \in globAlternatives(pattern) : globMatches(alt, input)

C17_InvalidPatternIsError ==
    call.fn = "matchesRegexp" =>
        /\ (\E i \in 1..Len(call.pattern) : call.pattern[i] = "[") =>
               call.out = << FALSE, TRUE >>
        /\ call.out # << TRUE, TRUE >>
        /\ \A t \in MatchTests :
               (t.wantErr /\ call.s = t.input /\ call.pattern = t.pattern) =>
                   call.out = << t.want, TRUE >>

\* the input "[a" against the pattern "[a", which would match were "[" a
\* literal
C17_Witness ==
    /\ call.fn = "matchesRegexp"
    /\ call.s = << "[", "a" >>
    /\ call.pattern = << "[", "a" >>
    /\ call.out = << FALSE, TRUE >>

RECURSIVE flatten(_)
\* the groups laid end to end
flatten(gs) == IF gs = <<>> THEN <<>> ELSE gs[1] \o flatten(Tail(gs))

(***************************************************************************)
(* C18.  For every object list and every limit the groups returned by      *)
(* splitSliceBySizeLimit, laid end to end, are the input list: no member   *)
(* is dropped, duplicated or moved; no group is empty; an empty list       *)
(* gives no group.                                                         *)
(***************************************************************************)
C18_OrderPreservingPartition ==
    pc = "split" =>
        /\ flatten(groups) = entries
        /\ \A i \in 1..Len(groups) : groups[i] # <<>>
        /\ objectList = <<>> => groups = <<>>

\* a list split into a closed group and a rest that closes no group
C18_Witness ==
    /\ pc = "split"
    /\ Len(objectList) = MaxObjs
    /\ Len(groups) >= 2
    /\ GroupSize(objectList, groups[Len(groups)]) <= sizeLimit

\* the size a group must exceed to be closed
closeThreshold == Max(sizeLimit, fileSizeMin)

\* a group without its last member
butLast(g) == SubSeq(g, 1, Len(g) - 1)

(***************************************************************************)
(* C19.  The grouping is greedy from left to right: every group, without   *)
(* its last member, is at or below max(groupSizeLimit, partSizeMin), so no *)
(* member before the last one could have closed it; every group but the    *)
(* last one is, with its last member, above that threshold; the last group *)
(* alone may be at or below it.                                            *)
(***************************************************************************)
C19_GreedyLeftToRight ==
    pc = "split" =>
        /\ \A i \in 1..Len(groups) :
               GroupSize(objectList, butLast(groups[i])) <= closeThreshold
        /\ \A i \in 1..(Len(groups) - 1) :
               GroupSize(objectList, groups[i]) > closeThreshold

\* a group of several members closed by its last one, followed by a last
\* group at or below the threshold, under a limit above partSizeMin
C19_Witness ==
    /\ pc = "split"
    /\ sizeLimit > fileSizeMin
    /\ Len(groups) = 2
    /\ Len(groups[1]) >= 2
    /\ GroupSize(objectList, butLast(groups[1])) > fileSizeMin
    /\ GroupSize(objectList, groups[2]) <= closeThreshold

(***************************************************************************)
(* C20.  A trailing short group is merged into its predecessor: when the   *)
(* grouping yields two groups or more, the cumulative size of the last     *)
(* group is not below partSizeMin.                                         *)
(***************************************************************************)
C20_TrailingShortGroupMerged ==
    Len(groups) >= 2 =>
        GroupSize(objectList, groups[Len(groups)]) >= fileSizeMin

\* element k of the part-result arrays is written by the step
writes(k) == parts'[k] # parts[k] \/ partsSizeList'[k] # partsSizeList[k]

\* the coordinator reads the part-result arrays in the step: parts for the
\* request of line 119, partsSizeList for the sum of line 132
readsResults == completeArg' # completeArg \/ (Multipart /\ ret'.done /\ ret'.err = "nil")

(***************************************************************************)
(* C21.  Once the part-result arrays exist, a step that writes element i   *)
(* of parts or partsSizeList is the end of the running task of group i,    *)
(* which then runs no more, so that each element has one writer and is     *)
(* written at most once; the coordinator reads the arrays only in steps    *)
(* taken when every group was dispatched and no task runs; a task that     *)
(* finished does not run again.                                            *)
(***************************************************************************)
C21_OneWriterPerIndex ==
    [][ /\ Len(parts) = Len(groups) /\ Len(parts) > 0 =>
            /\ Len(parts') = Len(parts)
            /\ Len(partsSizeList') = Len(partsSizeList)
            /\ \A k \in 1..Len(parts) :
                   writes(k) =>
                       /\ k \in Running
                       /\ tasks'[k].st = "done"
                       /\ \A j \in 1..Len(parts) : j # k => ~writes(j)
        /\ readsResults => next > Len(groups) /\ Running = {}
        /\ \A k \in 1..Len(tasks) :
               tasks[k].st \in { "done", "failed" } => tasks'[k] = tasks[k]
      ]_vars

\* the task of a later group has written its element while the task of an
\* earlier group still runs
C21_Witness ==
    \E i, j \in 1..Len(tasks) :
        /\ j < i
        /\ tasks[i].st = "done"
        /\ parts[i].PartNumber = i
        /\ partsSizeList[i] > 0
        /\ tasks[j].st = "run"
        /\ parts[j].PartNumber = 0

(***************************************************************************)
(* splitSliceBySizeLimit and the budget test of lines 47-50 on a list of   *)
(* many members of one size.  The recursion of splitLoop is as deep as the *)
(* list is long, so the loop is taken here Stride iterations at a time;    *)
(* and the byte counts of gibibyte members are beyond the integers at hand, so *)
(* sizes are counted in KiB: every size and ceiling below is a whole       *)
(* number of KiB, for which the comparisons of line 289 come out the same. *)
(* The list is given by its length n and the size of each member.          *)
(***************************************************************************)
KiB == 1024
GiB == 1024 * 1024
Members == 10001
Stride == 2048

\* the limit of the message of line 49: "mpu parts allowed (10k)"
mpuPartsAllowed == 10000

\* line 289 with >= for >
closesGroupKiBAtLimit(currentSize, groupSizeLimit) ==
    currentSize >= groupSizeLimit /\ currentSize >= fileSizeMin \div KiB

\* line 289, sizes in KiB
closesGroupKiB(currentSize, groupSizeLimit) ==
    currentSize > groupSizeLimit /\ currentSize > fileSizeMin \div KiB

\* the budget test, one part too generous
exceedsPartsAllowedOffByOne(n) == n > mpuPartsAllowed + 1

\* line 48 with the limit of the program
exceedsPartsAllowed(n) == n > mpuPartsAllowed

\* 10 001 members, and one fewer
MemberCounts == { Members - 1, Members }

\* members of 1 KiB under a ceiling of 5 MiB
smallMembersPlans ==
    { [n |-> n, size |-> 1, groupSizeLimit |-> fileSizeMin \div KiB] :
          n \in MemberCounts }

\* the ceilings findMinimumPartSize may give, from 5 MiB to 5 GiB
LargeCeilings ==
    { fileSizeMin \div KiB, GiB \div 2, GiB - 1, GiB, GiB + 1,
      2 * GiB, 3 * GiB, 4 * GiB, 5 * GiB }

\* members of 1 GiB under these ceilings
largeMembersPlans ==
    { [n |-> n, size |-> GiB, groupSizeLimit |-> limit] :
          n \in MemberCounts, limit \in LargeCeilings }

InitPlan ==
    /\ objectList = <<>>
    /\ estimatedSize = fileSizeMin
    /\ userMaxPartSize = 0
    /\ sedErr = FALSE
    /\ \E p \in smallMembersPlans \cup largeMembersPlans :
           plan = [pc |-> "loop", n |-> p.n, size |-> p.size,
                   groupSizeLimit |-> p.groupSizeLimit, i |-> 1,
                   groups |-> <<>>, currentGroup |-> <<>>, currentSize |-> 0,
                   err |-> "nil"]
    /\ Idle

PlanUnchanged ==
    UNCHANGED << objectList, estimatedSize, userMaxPartSize, sedErr, call,
                 sizeLimit, pc, groups, mpu, tasks, next, gerr, parts,
                 partsSizeList, log, gets, uploadReqs, stored, completeArg,
                 dest, finished, ret >>

\* one iteration of the loop of lines 278-296
planIteration(p) ==
    LET g == Append(p.currentGroup, p.i)
        sz == p.currentSize + p.size
    IN  IF closesGroupKiB(sz, p.groupSizeLimit)
        THEN [p EXCEPT !.groups = Append(@, g),
                       !.currentGroup = <<>>,
                       !.currentSize = 0,
                       !.i = @ + 1]
        ELSE [p EXCEPT !.currentGroup = g,
                       !.currentSize = sz,
                       !.i = @ + 1]

RECURSIVE planLoop(_, _)
\* the next k iterations, or those that are left: the first half of them,
\* then the rest
planLoop(p, k) ==
    IF k = 0 \/ p.i > p.n THEN p
    ELSE IF k = 1 THEN planIteration(p)
    ELSE planLoop(planLoop(p, k \div 2), k - k \div 2)

PlanStep ==
    /\ plan.pc = "loop"
    /\ plan.i <= plan.n
    /\ plan' = planLoop(plan, Stride)
    /\ PlanUnchanged

\* lines 297-301, then the test of lines 48-50
PlanEnd ==
    /\ plan.pc = "loop"
    /\ plan.i > plan.n
    /\ LET gs == IF Len(plan.currentGroup) > 0
                 THEN Append(plan.groups, plan.currentGroup)
                 ELSE plan.groups
       IN  plan' = [plan EXCEPT
                      !.groups = gs,
                      !.pc = "done",
                      !.err = IF exceedsPartsAllowed(Len(gs))
                              THEN "number of parts exceeded the number of mpu parts allowed"
                              ELSE "nil"]
    /\ PlanUnchanged

NextPlan == PlanStep \/ PlanEnd

PlanSpec == InitPlan /\ [][NextPlan]_vars

(***************************************************************************)
(* C22.  10 001 members of 1 KiB each under a ceiling of 5 MiB are split   *)
(* into at most 3 groups, every group but the last holding the fewest      *)
(* members that exceed 5 MiB; 3 is within the limit of the budget test,    *)
(* which passes.                                                           *)
(***************************************************************************)
C22_SmallMembersWithinBudget ==
    (plan.pc = "done" /\ plan.size = 1 /\ plan.n = Members) =>
        /\ Len(plan.groups) <= 3
        /\ 3 <= mpuPartsAllowed
        /\ plan.err = "nil"
        /\ \A k \in 1..(Len(plan.groups) - 1) :
               /\ Len(plan.groups[k]) * KiB > fileSizeMin
               /\ (Len(plan.groups[k]) - 1) * KiB <= fileSizeMin

\* the split of the 1 KiB members is over: a full group and a rest
C22_Witness ==
    /\ plan.pc = "done"
    /\ plan.size = 1
    /\ plan.n = Members
    /\ Len(plan.groups) = 2
    /\ Len(plan.groups[1]) + Len(plan.groups[2]) = Members

(***************************************************************************)
(* C23.  10 001 members of 1 GiB each: under a ceiling below 1 GiB every   *)
(* member is a group of its own and the budget test fails the run; under a *)
(* ceiling of 1 GiB or more the groups are within the budget and the test  *)
(* passes.                                                                 *)
(***************************************************************************)
C23_LargeMembersBudget ==
    (plan.pc = "done" /\ plan.size = GiB /\ plan.n = Members) =>
        IF plan.groupSizeLimit < GiB
        THEN /\ Len(plan.groups) = Members
             /\ plan.err # "nil"
        ELSE /\ Len(plan.groups) <= mpuPartsAllowed
             /\ plan.err = "nil"

\* the run with the ceiling just below 1 GiB has failed the budget test
C23_Witness ==
    /\ plan.pc = "done"
    /\ plan.size = GiB
    /\ plan.n = Members
    /\ plan.groupSizeLimit = GiB - 1
    /\ Len(plan.groups) = Members
    /\ plan.err # "nil"

(***************************************************************************)
(* C24.  When buildInMemoryConcat has returned, with a result or with an   *)
(* error, no group task runs; if the part-result arrays were made, every   *)
(* group was dispatched and its task ran to its end, the failure of        *)
(* another task notwithstanding; and no step is left to take, so that no   *)
(* request is sent and no element of the arrays written after the return.  *)
(***************************************************************************)
C24_ReturnsAfterAllTasks ==
    ret.done =>
        /\ Running = {}
        /\ Len(parts) > 0 =>
               /\ next = Len(groups) + 1
               /\ Len(finished) = Len(groups)
               /\ \A i \in 1..Len(groups) :
                      /\ tasks[i].st \in { "done", "failed" }
                      /\ \E k \in 1..Len(finished) : finished[k] = i
        /\ ~ENABLED Next

\* the run returned an error; the task that failed was the first to end,
\* and a task that ended after it uploaded its part
C24_Witness ==
    /\ ret.done
    /\ ret.err # "nil"
    /\ Len(groups) = maxPartNumLimit
    /\ Len(finished) = Len(groups)
    /\ tasks[finished[1]].st = "failed"
    /\ \E k \in 2..Len(finished) :
           /\ tasks[finished[k]].st = "done"
           /\ uploadReqs[finished[k]] = 1

(***************************************************************************)
(* Runs on members whose payload is not of the declared size: inline or    *)
(* fetched, a byte short or a byte long, next to members that are as       *)
(* declared.                                                               *)
(***************************************************************************)
TarKinds ==
    { S3Obj(700, 700, 700, blockSize),
      S3Obj(fileSizeMin + 1, 0, fileSizeMin + 1, blockSize),
      S3Obj(700, 699, 700, blockSize),
      S3Obj(700, 701, 700, blockSize),
      S3Obj(700, 0, 699, blockSize),
      S3Obj(700, 0, 701, blockSize) }

InitTar ==
    /\ objectList \in UNION { [1..n -> TarKinds] : n \in 1..MaxObjs }
    /\ estimatedSize \in EstimatedSizes
    /\ userMaxPartSize = 0
    /\ sedErr = FALSE
    /\ plan = NoPlan
    /\ Idle

TarSpec == InitTar /\ [][Next]_vars

\* the number of payload bytes tarGroup obtains for an object
payloadOf(o) == IF hasInlineData(o) THEN o.Data ELSE o.Body

\* every header of the stream is followed by as many payload bytes as the
\* object it is the header of declares, and no payload is without header
wellSized(stream) ==
    \A k \in 1..Len(stream) :
        /\ stream[k].k = "hdr" =>
               objectList[stream[k].m].Size =
                   IF k < Len(stream) /\ stream[k + 1].k = "data"
                                      /\ stream[k + 1].m = stream[k].m
                   THEN stream[k + 1].n ELSE 0
        /\ stream[k].k = "data" =>
               /\ k > 1
               /\ stream[k - 1].k = "hdr"
               /\ stream[k - 1].m = stream[k].m

(***************************************************************************)
(* C25.  A tarGroup call that came to its end without error got, for each  *)
(* of its members, as many payload bytes as the member declares; a call on *)
(* a group with a member whose payload is shorter or longer fails, and its *)
(* buffer is not uploaded: in every part body stored, in the body of a     *)
(* PutObject and in every object at the destination, each header is        *)
(* followed by a payload of the declared size.                             *)
(***************************************************************************)
C25_DeclaredSizeAuthoritative ==
    /\ \A i \in 1..Len(tasks) :
           /\ tasks[i].st = "done" =>
                  \A k \in 1..Len(tasks[i].list) :
                      payloadOf(objectList[tasks[i].list[k]]) =
                          objectList[tasks[i].list[k]].Size
           /\ (\E k \in 1..Len(tasks[i].list) :
                   payloadOf(objectList[tasks[i].list[k]]) #
                       objectList[tasks[i].list[k]].Size) =>
                  /\ tasks[i].st # "done"
                  /\ i <= Len(uploadReqs) => uploadReqs[i] = 0
    /\ \A pn \in 1..Len(stored) :
           \A k \in 1..Len(stored[pn]) : wellSized(stored[pn][k])
    /\ calls["PutObject"] > 0 => wellSized(tasks[1].buf)
    /\ \A d \in 1..Len(dest) : wellSized(dest[d])

\* a group whose last member came a byte short failed at the end of
\* tarGroup, while the part of another group was uploaded
C25_Witness ==
    \E i, j \in 1..Len(tasks) :
        /\ tasks[i].st = "failed"
        /\ tasks[i].err = "archive/tar: missed writing"
        /\ tasks[i].pos = Len(tasks[i].list)
        /\ payloadOf(objectList[tasks[i].list[tasks[i].pos]]) <
               objectList[tasks[i].list[tasks[i].pos]].Size
        /\ j <= Len(stored)
        /\ stored[j] # <<>>

(***************************************************************************)
(* Termination.  Every request returns, with a result or an error: a step  *)
(* of the model is a request together with its return.  The coordinator    *)
(* and the group tasks are scheduled fairly; all that is used of it is     *)
(* that the program does not stand still while one of them can take a      *)
(* step.                                                                   *)
(***************************************************************************)
\* an object that makes a group of its own, and one whose body comes short
LiveKinds ==
    { S3Obj(fileSizeMin + 1, 0, fileSizeMin + 1, blockSize),
      S3Obj(700, 0, 699, blockSize) }

InitLive ==
    /\ objectList \in UNION { [1..n -> LiveKinds] : n \in 0..MaxObjs }
    /\ estimatedSize \in EstimatedSizes
    /\ estimatedSize >= fileSizeMin => objectList # <<>>
    /\ userMaxPartSize = 0
    /\ sedErr = FALSE
    /\ plan = NoPlan
    /\ Idle

Fairness == WF_vars(Next)

LiveSpec == InitLive /\ [][Next]_vars /\ Fairness

(***************************************************************************)
(* C26.  Under these assumptions every call of buildInMemoryConcat         *)
(* returns: eventually it has returned an error, or it has returned a      *)
(* result and the object is at the destination; it does not stay in the    *)
(* dispatch loop or in the wait for its tasks, be the groups fewer or more *)
(* than the workers.                                                       *)
(***************************************************************************)
C26_Terminates ==
    <>(/\ ret.done
       /\ pc = "done"
       /\ Running = {}
       /\ ret.err = "nil" => Len(dest) = 1)

\* a run of more groups than workers has returned its result
C26_Witness ==
    /\ Succeeded
    /\ Multipart
    /\ Len(groups) > threads
    /\ Len(finished) = Len(groups)
    /\ Len(dest) = 1

RECURSIVE storedLength(_)
\* the bytes of the part bodies the store holds for the upload, the last
\* body stored under each part number
storedLength(st) ==
    IF st = <<>> THEN 0
    ELSE (IF st[1] = <<>> THEN 0 ELSE Length(st[1][Len(st[1])]))
         + storedLength(Tail(st))

(***************************************************************************)
(* C27.  The Size of the object a successful run returns is the number of  *)
(* bytes written to the destination: in the multipart regime the sum of    *)
(* the lengths of the part bodies as uploaded, after the cut of the        *)
(* trailer, which is the length of the completed object; in the small      *)
(* regime the length of the body of the PutObject.                         *)
(***************************************************************************)
C27_ReportedSizeIsWrittenSize ==
    Succeeded =>
        /\ Len(dest) = 1
        /\ ret.size = Length(dest[1])
        /\ IF Multipart
           THEN /\ ret.size = storedLength(stored)
                /\ \A i \in 1..Len(groups) :
                       partsSizeList[i] = Length(stored[i][1])
           ELSE ret.size = Length(tasks[1].buf)

\* a multipart run of several parts has returned the size of the archive
C27_Witness ==
    /\ Succeeded
    /\ Multipart
    /\ Len(groups) >= 2
    /\ ret.size = Length(archive)
    /\ ret.size > partsSizeList[1]

====
